---------------------------- MODULE Spec2Model ----------------------------
(***************************************************************************)
(* A model of the dbt semantic model -> Snowflake semantic view converter: *)
(* the DBTToSnowflakeConverter class (dbt_to_snowflake_converter.py) and   *)
(* the command-line `convert` command (converter.py).                      *)
(*                                                                         *)
(* Text is modelled as TLA+ strings, built with \o exactly as the code     *)
(* builds it.  A YAML mapping is a function from keys to values, so that   *)
(* an absent key is a key outside its DOMAIN.                              *)
(***************************************************************************)
EXTENDS Integers, Sequences, FiniteSets, TLC

VARIABLES
    pc,           \* position of the `convert` command in converter.main
    readable,     \* whether yaml.safe_load on the input file succeeds
    data,         \* the parsed document handed to convert_yaml_content
    output_given, \* whether OUTPUT_FILE was passed
    overwrite,    \* the --overwrite flag
    file,         \* the output path on disk: [exists, content]
    file0,        \* the output path as it was when the command started
    idx,          \* loop position of `for model in semantic_models`
    sql_outputs,  \* the list convert_yaml_content accumulates
    sql_output,   \* [set, text]: the text convert_file returned to main
    error,        \* the message of the exception raised, "" when none
    exit_status,  \* process exit status, -1 while running
    fn,           \* unit harness: the method under call
    arg,          \* unit harness: its arguments
    ret,          \* unit harness: the returned text
    returned      \* unit harness: whether the call has returned

vars == <<pc, readable, data, output_given, overwrite, file, file0, idx, sql_outputs,
          sql_output, error, exit_status, fn, arg, ret, returned>>

cliVars == <<pc, readable, data, output_given, overwrite, file, file0, idx, sql_outputs,
             sql_output, error, exit_status>>

fnVars == <<fn, arg, ret, returned>>

(***************************************************************************)
(* Python str primitives                                                   *)
(***************************************************************************)
Lowers == "abcdefghijklmnopqrstuvwxyz"

Uppers == "ABCDEFGHIJKLMNOPQRSTUVWXYZ"

Chr(s, i) == SubSeq(s, i, i)

UpperCh(c) ==
    IF \E i \in 1..26 : Chr(Lowers, i) = c
    THEN Chr(Uppers, CHOOSE i \in 1..26 : Chr(Lowers, i) = c)
    ELSE c

LowerCh(c) ==
    IF \E i \in 1..26 : Chr(Uppers, i) = c
    THEN Chr(Lowers, CHOOSE i \in 1..26 : Chr(Uppers, i) = c)
    ELSE c

\* s.upper() and s.lower(), character by character (halving keeps the
\* evaluation shallow)
RECURSIVE upper(_)
upper(s) ==
    IF Len(s) <= 1 THEN UpperCh(s)
    ELSE upper(SubSeq(s, 1, Len(s) \div 2)) \o upper(SubSeq(s, Len(s) \div 2 + 1, Len(s)))

RECURSIVE lower(_)
lower(s) ==
    IF Len(s) <= 1 THEN LowerCh(s)
    ELSE lower(SubSeq(s, 1, Len(s) \div 2)) \o lower(SubSeq(s, Len(s) \div 2 + 1, Len(s)))

startswith(s, p) == Len(p) <= Len(s) /\ SubSeq(s, 1, Len(p)) = p

endswith(s, p) == Len(p) <= Len(s) /\ SubSeq(s, Len(s) - Len(p) + 1, Len(s)) = p

\* whether sub occurs in s at position i
OccursAt(s, sub, i) == i + Len(sub) - 1 <= Len(s) /\ SubSeq(s, i, i + Len(sub) - 1) = sub

\* `sub in s`
Contains(s, sub) == \E i \in 1..(Len(s) + 1) : OccursAt(s, sub, i)

\* s.find(sub) + 1 for a sub that occurs in s
Find(s, sub) ==
    CHOOSE i \in 1..(Len(s) + 1) :
        OccursAt(s, sub, i) /\ \A j \in 1..(i - 1) : ~OccursAt(s, sub, j)

\* s.replace(old, new) for a non-empty old: leftmost, non-overlapping
RECURSIVE replace(_, _, _)
replace(s, old, new) ==
    IF ~Contains(s, old) THEN s
    ELSE LET i == Find(s, old)
         IN SubSeq(s, 1, i - 1) \o new
                \o replace(SubSeq(s, i + Len(old), Len(s)), old, new)

\* sep.join(list)
RECURSIVE join(_, _)
join(sep, list) ==
    IF list = <<>> THEN ""
    ELSE IF Len(list) = 1 THEN list[1]
    ELSE list[1] \o sep \o join(sep, Tail(list))

\* dict.get(key, default)
Get(d, k, default) == IF k \in DOMAIN d THEN d[k] ELSE default

(***************************************************************************)
(* YAML scalars of a measure's `expr`: yaml.safe_load yields a str for     *)
(* `expr: amount` and an int for `expr: 1`.  A scalar is its Python type   *)
(* and its str() text, the only things the code reads of it.               *)
(***************************************************************************)
PyStr(s) == [type |-> "str", text |-> s]

PyInt(digits) == [type |-> "int", text |-> digits]

\* str(v), also what an f-string renders
str(v) == v.text

\* v == '<s>' for a str literal: an int never equals a str
EqStr(v, s) == v.type = "str" /\ v.text = s

(***************************************************************************)
(* DBTToSnowflakeConverter.__init__: the lookup tables                     *)
(***************************************************************************)
aggregation_mapping ==
    [sum |-> "SUM", avg |-> "AVG", average |-> "AVG", count |-> "COUNT",
     count_distinct |-> "COUNT", min |-> "MIN", max |-> "MAX", median |-> "MEDIAN",
     percentile |-> "PERCENTILE_CONT", sum_boolean |-> "SUM"]

time_granularity_mapping ==
    [day |-> "DAY", week |-> "WEEK", month |-> "MONTH", quarter |-> "QUARTER",
     year |-> "YEAR", hour |-> "HOUR", minute |-> "MINUTE"]

(***************************************************************************)
(* _extract_table_name                                                     *)
(***************************************************************************)
IsQuote(c) == c \in {"'", "\""}

\* length of the longest prefix of s holding no quote character
NonQuoteRun(s) ==
    CHOOSE n \in 0..Len(s) :
        /\ \A j \in 1..n : ~IsQuote(Chr(s, j))
        /\ (n < Len(s) => IsQuote(Chr(s, n + 1)))

\* whether r"ref\(['\"]([^'\"]+)['\"]" matches at the start of s
RefMatchesAt(s) ==
    /\ startswith(s, "ref(")
    /\ Len(s) >= 5 /\ IsQuote(Chr(s, 5))
    /\ LET n == NonQuoteRun(SubSeq(s, 6, Len(s)))
       IN n >= 1 /\ Len(s) >= 6 + n /\ IsQuote(Chr(s, 6 + n))

RefGroup(s) == SubSeq(s, 6, 5 + NonQuoteRun(SubSeq(s, 6, Len(s))))

\* s.strip("'\"")
stripQuotes(s) ==
    IF \A j \in 1..Len(s) : IsQuote(Chr(s, j)) THEN ""
    ELSE LET first == CHOOSE i \in 1..Len(s) :
                          ~IsQuote(Chr(s, i)) /\ \A j \in 1..(i - 1) : IsQuote(Chr(s, j))
             last == CHOOSE i \in 1..Len(s) :
                         ~IsQuote(Chr(s, i)) /\ \A j \in (i + 1)..Len(s) : IsQuote(Chr(s, j))
         IN SubSeq(s, first, last)

_extract_table_name(model_ref) ==
    IF model_ref = "" THEN "unknown_table"
    ELSE IF startswith(model_ref, "ref(")
            /\ \E i \in 1..Len(model_ref) : RefMatchesAt(SubSeq(model_ref, i, Len(model_ref)))
         THEN LET i == CHOOSE k \in 1..Len(model_ref) :
                          /\ RefMatchesAt(SubSeq(model_ref, k, Len(model_ref)))
                          /\ \A j \in 1..(k - 1) : ~RefMatchesAt(SubSeq(model_ref, j, Len(model_ref)))
              IN RefGroup(SubSeq(model_ref, i, Len(model_ref)))
         ELSE stripQuotes(model_ref)

(***************************************************************************)
(* _generate_tables_section                                                *)
(***************************************************************************)
\* the value the `for entity in entities` scan leaves in primary_key:
\* [found |-> FALSE] is None
RECURSIVE PrimaryScan(_)
PrimaryScan(entities) ==
    IF entities = <<>> THEN [found |-> FALSE, key |-> ""]
    ELSE IF Get(entities[1], "type", "") = "primary"
         THEN [found |-> TRUE, key |-> Get(entities[1], "expr", entities[1].name)]
         ELSE PrimaryScan(Tail(entities))

\* primary_key as interpolated into the section; `not primary_key` holds for
\* None and for the empty string
PrimaryKey(entities) ==
    LET scan == PrimaryScan(entities)
    IN IF scan.found /\ scan.key # "" THEN scan.key
       ELSE IF entities # <<>>
            THEN Get(entities[1], "expr", Get(entities[1], "name", "id"))
            ELSE "id"

_generate_tables_section(semantic_model_name, table_name, entities) ==
    semantic_model_name \o " AS " \o table_name \o "\n  PRIMARY KEY ("
        \o PrimaryKey(entities) \o ")"

(***************************************************************************)
(* _generate_relationships_section                                         *)
(***************************************************************************)
Relationship(entity) ==
    LET entity_name == entity.name
        expr == Get(entity, "expr", entity_name)
        relationship_name == "to_" \o entity_name
        stripped == replace(replace(entity_name, "_id", ""), "id", "")
        target_table == IF stripped # "" THEN stripped ELSE "unknown"
    IN relationship_name \o " AS\n" \o "  semantic_model (" \o expr \o ") REFERENCES "
           \o target_table

RECURSIVE Relationships(_)
Relationships(entities) ==
    IF entities = <<>> THEN <<>>
    ELSE (IF Get(entities[1], "type", "") = "foreign"
          THEN <<Relationship(entities[1])>> ELSE <<>>)
         \o Relationships(Tail(entities))

_generate_relationships_section(entities) == join(",\n", Relationships(entities))

(***************************************************************************)
(* _generate_facts_section                                                 *)
(***************************************************************************)
\* fault: the aggregation keyword compared without .lower()
IsRowLevel_CaseSensitive(measure) ==
    LET name == measure.name
        expr == Get(measure, "expr", PyStr(name))
        agg == Get(measure, "agg", "sum")
        expr_str == str(expr)
    IN /\ expr_str # "1"
       /\ agg \notin {"count", "count_distinct"}
       /\ ~startswith(upper(expr_str), "COUNT")

\* the condition of line 215
IsRowLevel(measure) ==
    LET name == measure.name
        expr == Get(measure, "expr", PyStr(name))
        agg == Get(measure, "agg", "sum")
        expr_str == str(expr)
    IN /\ expr_str # "1"
       /\ lower(agg) \notin {"count", "count_distinct"}
       /\ ~startswith(upper(expr_str), "COUNT")

FactDefinition(table_alias, measure) ==
    LET name == measure.name
        expr == Get(measure, "expr", PyStr(name))
        description == Get(measure, "description", "")
    IN table_alias \o "." \o name \o " AS " \o str(expr)
           \o (IF description # "" THEN "\n  COMMENT '" \o description \o "'" ELSE "")

RECURSIVE Facts(_, _)
Facts(table_alias, measures) ==
    IF measures = <<>> THEN <<>>
    ELSE (IF IsRowLevel(measures[1])
          THEN <<FactDefinition(table_alias, measures[1])>> ELSE <<>>)
         \o Facts(table_alias, Tail(measures))

_generate_facts_section(table_alias, measures) == join(",\n", Facts(table_alias, measures))

(***************************************************************************)
(* _generate_metric_name                                                   *)
(***************************************************************************)
\* fault: the aggregation keyword compared without .lower()
_generate_metric_name_CaseSensitive(measure_name, agg) ==
    LET agg_lower == agg
    IN IF agg_lower = "sum"
       THEN IF endswith(measure_name, "_count") \/ measure_name = "count" THEN "total_count"
            ELSE IF endswith(measure_name, "_total") \/ endswith(measure_name, "_amount")
                    \/ endswith(measure_name, "_value")
                 THEN measure_name
                 ELSE "total_" \o measure_name
       ELSE IF agg_lower = "avg" \/ agg_lower = "average" THEN "avg_" \o measure_name
       ELSE IF agg_lower = "count"
            THEN IF ~endswith(measure_name, "_count") THEN measure_name \o "_count"
                 ELSE measure_name
       ELSE IF agg_lower = "count_distinct"
            THEN IF ~startswith(measure_name, "unique_") THEN "unique_" \o measure_name
                 ELSE measure_name
       ELSE lower(agg) \o "_" \o measure_name

_generate_metric_name(measure_name, agg) ==
    LET agg_lower == lower(agg)
    IN IF agg_lower = "sum"
       THEN IF endswith(measure_name, "_count") \/ measure_name = "count" THEN "total_count"
            ELSE IF endswith(measure_name, "_total") \/ endswith(measure_name, "_amount")
                    \/ endswith(measure_name, "_value")
                 THEN measure_name
                 ELSE "total_" \o measure_name
       ELSE IF agg_lower = "avg" \/ agg_lower = "average" THEN "avg_" \o measure_name
       ELSE IF agg_lower = "count"
            THEN IF ~endswith(measure_name, "_count") THEN measure_name \o "_count"
                 ELSE measure_name
       ELSE IF agg_lower = "count_distinct"
            THEN IF ~startswith(measure_name, "unique_") THEN "unique_" \o measure_name
                 ELSE measure_name
       ELSE IF agg_lower \in {"min", "max"} THEN agg_lower \o "_" \o measure_name
       ELSE agg_lower \o "_" \o measure_name

(***************************************************************************)
(* _generate_metrics_section                                               *)
(***************************************************************************)
\* metric_expr of lines 268-277
MetricExpr(measure) ==
    LET name == measure.name
        agg == Get(measure, "agg", "sum")
        expr == Get(measure, "expr", PyStr(name))
        snowflake_agg == Get(aggregation_mapping, lower(agg), upper(agg))
    IN IF lower(agg) = "count_distinct" THEN "COUNT(DISTINCT " \o str(expr) \o ")"
       ELSE IF EqStr(expr, "1") /\ lower(agg) \in {"sum", "count"} THEN "COUNT(*)"
       ELSE snowflake_agg \o "(" \o str(expr) \o ")"

MetricDefinition(table_alias, measure) ==
    LET name == measure.name
        agg == Get(measure, "agg", "sum")
        description == Get(measure, "description", "")
        metric_name == _generate_metric_name(name, agg)
    IN table_alias \o "." \o metric_name \o " AS " \o MetricExpr(measure)
           \o (IF description # "" THEN "\n  COMMENT '" \o description \o "'" ELSE "")

RECURSIVE Metrics(_, _)
Metrics(table_alias, measures) ==
    IF measures = <<>> THEN <<>>
    ELSE <<MetricDefinition(table_alias, measures[1])>> \o Metrics(table_alias, Tail(measures))

_generate_metrics_section(table_alias, measures) ==
    join(",\n", Metrics(table_alias, measures))


(***************************************************************************)
(* _wrap_long_expression                                                   *)
(***************************************************************************)
\* the characters \s matches among those the model's texts hold
IsSpace(c) == c \in {" ", "\t", "\n", "\r", "\f"}

\* length of the longest all-whitespace prefix of s
SpaceRun(s) ==
    CHOOSE n \in 0..Len(s) :
        /\ \A j \in 1..n : IsSpace(Chr(s, j))
        /\ (n < Len(s) => ~IsSpace(Chr(s, n + 1)))

\* Length of the match of \s+<kw>\s+ (trail = 1) or \s+<kw>\s* (trail = 0) at
\* the start of s under re.IGNORECASE, 0 when there is none.  \s+ is greedy
\* and <kw> starts with a non-space, so the leading run is taken whole.
MatchLen(s, kw, trail) ==
    LET lead == SpaceRun(s)
        afterKw == lead + Len(kw)
    IN IF lead >= 1 /\ afterKw <= Len(s) /\ lower(SubSeq(s, lead + 1, afterKw)) = kw
       THEN LET rest == SpaceRun(SubSeq(s, afterKw + 1, Len(s)))
            IN IF rest >= trail THEN afterKw + rest ELSE 0
       ELSE 0

\* re.sub(pattern, repl, s, flags=re.IGNORECASE): leftmost non-overlapping
\* matches, the scan resuming after each match
RECURSIVE re_sub(_, _, _, _)
re_sub(s, kw, trail, repl) ==
    LET MatchAt(i) == MatchLen(SubSeq(s, i, Len(s)), kw, trail) > 0
    IN IF ~\E i \in 1..Len(s) : MatchAt(i) THEN s
       ELSE LET i == CHOOSE k \in 1..Len(s) : MatchAt(k) /\ \A j \in 1..(k - 1) : ~MatchAt(j)
                n == MatchLen(SubSeq(s, i, Len(s)), kw, trail)
            IN SubSeq(s, 1, i - 1) \o repl
                   \o re_sub(SubSeq(s, i + n, Len(s)), kw, trail, repl)

_wrap_long_expression(expr) ==
    IF Contains(lower(expr), "case ")
    THEN LET e1 == re_sub(expr, "when", 1, "\n      WHEN ")
             e2 == re_sub(e1, "then", 1, " THEN ")
             e3 == re_sub(e2, "else", 1, "\n      ELSE ")
             e4 == re_sub(e3, "end", 0, "\n      END")
         IN "    " \o e4
    ELSE "    " \o expr

(***************************************************************************)
(* _generate_dimensions_section                                            *)
(***************************************************************************)
\* `len(expr) > 60`
WrapLimit == 60

\* fault: an unknown granularity passed through without .upper()
DimensionExpr_NoUpper(dimension) ==
    LET name == dimension.name
        expr == Get(dimension, "expr", name)
        dim_type == Get(dimension, "type", "categorical")
        type_params == Get(dimension, "type_params", <<>>)
        granularity == Get(type_params, "time_granularity", "day")
    IN IF dim_type = "time" /\ expr = name /\ granularity # ""
       THEN "DATE_TRUNC('"
                \o Get(time_granularity_mapping, granularity, granularity)
                \o "', " \o name \o ")"
       ELSE expr

\* expr after lines 229-241
DimensionExpr(dimension) ==
    LET name == dimension.name
        expr == Get(dimension, "expr", name)
        dim_type == Get(dimension, "type", "categorical")
        type_params == Get(dimension, "type_params", <<>>)
        granularity == Get(type_params, "time_granularity", "day")
    IN IF dim_type = "time" /\ expr = name /\ granularity # ""
       THEN "DATE_TRUNC('"
                \o Get(time_granularity_mapping, granularity, upper(granularity))
                \o "', " \o name \o ")"
       ELSE expr

\* fault: `len(expr) >= 60`
DimDefinition_OffByOne(table_alias, dimension) ==
    LET name == dimension.name
        description == Get(dimension, "description", "")
        expr == DimensionExpr(dimension)
    IN (IF Len(expr) >= WrapLimit
        THEN table_alias \o "." \o name \o " AS (\n" \o _wrap_long_expression(expr) \o "\n)"
        ELSE table_alias \o "." \o name \o " AS " \o expr)
       \o (IF description # "" THEN "\n  COMMENT '" \o description \o "'" ELSE "")

\* dim_definition of lines 243-251
DimDefinition(table_alias, dimension) ==
    LET name == dimension.name
        description == Get(dimension, "description", "")
        expr == DimensionExpr(dimension)
    IN (IF Len(expr) > WrapLimit
        THEN table_alias \o "." \o name \o " AS (\n" \o _wrap_long_expression(expr) \o "\n)"
        ELSE table_alias \o "." \o name \o " AS " \o expr)
       \o (IF description # "" THEN "\n  COMMENT '" \o description \o "'" ELSE "")

RECURSIVE Dims(_, _)
Dims(table_alias, dimensions) ==
    IF dimensions = <<>> THEN <<>>
    ELSE <<DimDefinition(table_alias, dimensions[1])>> \o Dims(table_alias, Tail(dimensions))

_generate_dimensions_section(table_alias, dimensions) ==
    join(",\n", Dims(table_alias, dimensions))

(***************************************************************************)
(* _convert_single_model: the Jinja template                               *)
(***************************************************************************)
\* s.split("\n")
RECURSIVE SplitLines(_)
SplitLines(s) ==
    IF ~Contains(s, "\n") THEN <<s>>
    ELSE LET i == CHOOSE k \in 1..Len(s) :
                     Chr(s, k) = "\n" /\ \A j \in 1..(k - 1) : Chr(s, j) # "\n"
         IN <<SubSeq(s, 1, i - 1)>> \o SplitLines(SubSeq(s, i + 1, Len(s)))

RECURSIVE IndentRest(_)
IndentRest(lines) ==
    IF lines = <<>> THEN ""
    ELSE "\n" \o (IF lines[1] # "" THEN "    " \o lines[1] ELSE "") \o IndentRest(Tail(lines))

\* the filter `indent(4, True)`: every non-blank line, the first included
indent(s) ==
    LET lines == SplitLines(s)
    IN "    " \o lines[1] \o IndentRest(Tail(lines))

\* fault: the `{%- if ... %}` guard dropped
Clause_Unguarded(keyword, body) ==
    "\n  " \o keyword \o " (\n" \o indent(body) \o "\n  )"

\* one `{%- if body %} ... {%- endif %}` block of the template
Clause(keyword, body) ==
    IF body # "" THEN "\n  " \o keyword \o " (\n" \o indent(body) \o "\n  )" ELSE ""

\* template.render(...) of lines 104-140
Render(name, description, tables_sql, relationships_sql, facts_sql, dimensions_sql, metrics_sql) ==
    "CREATE SEMANTIC VIEW " \o name
        \o (IF description # ""
            THEN "\n  COMMENT = '" \o replace(description, "'", "''") \o "'" ELSE "")
        \o "\n  TABLES (\n" \o indent(tables_sql) \o "\n  )"
        \o Clause("RELATIONSHIPS", relationships_sql)
        \o Clause("FACTS", facts_sql)
        \o Clause("DIMENSIONS", dimensions_sql)
        \o Clause("METRICS", metrics_sql)
        \o ";"

\* [ok |-> FALSE] is the ValueError of line 88
_convert_single_model(model) ==
    LET name == Get(model, "name", "")
        description == Get(model, "description", "")
        model_ref == Get(model, "model", "")
        table_name == _extract_table_name(model_ref)
        entities == Get(model, "entities", <<>>)
        measures == Get(model, "measures", <<>>)
        dimensions == Get(model, "dimensions", <<>>)
    IN IF name = "" THEN [ok |-> FALSE, text |-> ""]
       ELSE [ok |-> TRUE,
             text |-> Render(name, description,
                             _generate_tables_section(name, table_name, entities),
                             _generate_relationships_section(entities),
                             _generate_facts_section(name, measures),
                             _generate_dimensions_section(name, dimensions),
                             _generate_metrics_section(name, measures))]


(***************************************************************************)
(* Inputs.  Every record has its `name`; the other keys are optional, and  *)
(* text values may be empty.                                               *)
(***************************************************************************)
MaxMeasures == 2

MaxEntities == 2

MaxDimensions == 2

MaxModels == 2

\* the empty mapping, also the empty list
Empty == <<>>

\* one optional key: absent, or present with one of the values
Optional(key, values) == {Empty} \cup {[k \in {key} |-> v] : v \in values}

SeqsUpTo(S, n) == UNION {[1..k -> S] : k \in 0..n}

MeasureNames == {"amount", "order_count", "count", "unique_users"}

AggKeywords ==
    {"sum", "SUM", "avg", "average", "count", "Count", "count_distinct",
     "COUNT_DISTINCT", "min", "MAX", "median", "percentile", "sum_boolean",
     "stddev", ""}

MeasureExprs ==
    {PyStr("1"), PyInt("1"), PyInt("2"), PyStr("amount"), PyStr("count(order_id)"),
     PyStr("COUNT_IF(ok)"), PyStr("price * qty"), PyStr("")}

MetricNameArgs ==
    {<<n, a>> : n \in MeasureNames \cup {"net_amount", "x_total", "unit_value", "recount",
                                         "unique_", "_count", ""},
                a \in AggKeywords}

MeasurePool ==
    {[name |-> n] @@ e @@ a @@ d :
        n \in {"amount", "order_count"},
        e \in Optional("expr", MeasureExprs),
        a \in Optional("agg", AggKeywords),
        d \in Optional("description", {"", "Total"})}

MeasureCore ==
    {[name |-> "amount", agg |-> "sum"],
     [name |-> "record_count", expr |-> PyStr("1"), agg |-> "sum"],
     [name |-> "users", expr |-> PyStr("user_id"), agg |-> "count_distinct",
      description |-> "Distinct users"],
     [name |-> "price", agg |-> "AVG", description |-> "Mean price"]}

MeasureLists == {<<m>> : m \in MeasurePool} \cup SeqsUpTo(MeasureCore, MaxMeasures)

EntityPool ==
    {[name |-> n] @@ t @@ e :
        n \in {"id", "user_id"},
        t \in Optional("type", {"primary", "foreign", "unique"}),
        e \in Optional("expr", {"", "order_key"})}

EntityLists == SeqsUpTo(EntityPool, MaxEntities)

\* s repeated n times
RECURSIVE Rep(_, _)
Rep(s, n) ==
    IF n = 0 THEN ""
    ELSE IF n = 1 THEN s
    ELSE Rep(s, n \div 2) \o Rep(s, n - n \div 2)

Granularities ==
    {"day", "week", "month", "quarter", "year", "hour", "minute", "fortnight", "Month", ""}

TimeDimensionPool ==
    {[name |-> "created_date"] @@ e @@ t @@ tp @@ d :
        e \in Optional("expr", {"created_date", "CAST(created_at AS DATE)", ""}),
        t \in Optional("type", {"time", "categorical"}),
        tp \in Optional("type_params",
                        {Empty} \cup {[time_granularity |-> g] : g \in Granularities}),
        d \in Optional("description", {"Creation date"})}

\* expressions around the wrapping threshold, with and without CASE
LongExprs ==
    {Rep("x", n) : n \in (WrapLimit - 1)..(WrapLimit + 1)}
    \cup {"case when amount > 100 then 'large' when amount > 10 then 'mid' else 'small' end",
          "CASE WHEN amount > 100 THEN 'large' ELSE 'small' END",
          "CASE WHEN amount > 100 THEN 'large' ELSE 'small' END" \o Rep(" ", 8),
          "CASE WHEN amount > 100 THEN 'large' ELSE 'small' END" \o Rep(" ", 9),
          "Case\n  When status = 'A'\n    Then 'active'\n  Else\t'inactive'\nEnd AS status_label",
          "case when ending_balance > 0 then 'still open' else 'closed' end || suffix",
          "lowercase(status) || ' then ' || uppercase(status) || ' when else '",
          "coalesce(status, 'unknown') || ' when ' || coalesce(region, 'n/a') || 'x'",
          "case\nwhen a then b\nend" \o Rep(" ", 40),
          "case when when a then then b else else c end end  " \o Rep("y", 20)}

WrapDimensionPool ==
    {[name |-> "status", expr |-> e] @@ t @@ d :
        e \in LongExprs,
        t \in Optional("type", {"time", "categorical"}),
        d \in Optional("description", {"Status"})}

DimensionCore ==
    {[name |-> "created_date", type |-> "time", type_params |-> [time_granularity |-> "day"],
      description |-> "Creation date"],
     [name |-> "status", type |-> "categorical", description |-> "Record status"],
     [name |-> "size", type |-> "categorical",
      expr |-> "case when amount > 100 then 'large' when amount > 10 then 'mid' else 'small' end"]}

DimensionLists ==
    {<<d>> : d \in TimeDimensionPool \cup WrapDimensionPool}
    \cup SeqsUpTo(DimensionCore, MaxDimensions)

ModelRefs == {"ref('my_table')", "ref(\"orders\")", "'orders'", "analytics.orders", "ref(x)"}

\* semantic models for _convert_single_model, the sections present or absent
ModelPool ==
    {n @@ d @@ r @@ e @@ m @@ dm :
        n \in Optional("name", {"simple_model", ""}),
        d \in Optional("description", {"", "Orders' facts"}),
        r \in Optional("model", {"ref('my_table')"}),
        e \in Optional("entities",
                       {Empty,
                        <<[name |-> "id", type |-> "primary"]>>,
                        <<[name |-> "id", type |-> "primary"],
                          [name |-> "user_id", type |-> "foreign"]>>,
                        <<[name |-> "user_id", type |-> "foreign", expr |-> "uid"]>>}),
        m \in Optional("measures",
                       {Empty,
                        <<[name |-> "record_count", expr |-> PyInt("1"), agg |-> "sum"]>>,
                        <<[name |-> "amount", agg |-> "sum", description |-> "Total amount"],
                          [name |-> "record_count", expr |-> PyStr("1"), agg |-> "sum"]>>}),
        dm \in Optional("dimensions",
                        {Empty,
                         <<[name |-> "created_date", type |-> "time"],
                           [name |-> "status", type |-> "categorical",
                            description |-> "Record status"]>>})}

(***************************************************************************)
(* Unit harness: one call of one method on one input                       *)
(***************************************************************************)
TableAlias == "m"

CliIdle ==
    /\ pc = "idle" /\ readable = TRUE /\ data = Empty
    /\ output_given = FALSE /\ overwrite = FALSE
    /\ file = [exists |-> FALSE, content |-> ""] /\ file0 = file
    /\ idx = 0 /\ sql_outputs = <<>>
    /\ sql_output = [set |-> FALSE, text |-> ""]
    /\ error = "" /\ exit_status = -1

UnitInit ==
    /\ CliIdle
    /\ returned = FALSE /\ ret = ""
    /\ \/ fn = "_generate_metric_name" /\ arg \in MetricNameArgs
       \/ fn = "_generate_metrics_section" /\ arg \in MeasureLists
       \/ fn = "_generate_facts_section" /\ arg \in MeasureLists
       \/ fn = "_generate_tables_section" /\ arg \in EntityLists
       \/ fn = "_generate_relationships_section" /\ arg \in EntityLists
       \/ fn = "_generate_dimensions_section" /\ arg \in DimensionLists
       \/ fn = "_extract_table_name" /\ arg \in ModelRefs \cup {""}
       \/ fn = "_convert_single_model" /\ arg \in ModelPool

Return(text) ==
    /\ ~returned
    /\ ret' = text /\ returned' = TRUE
    /\ UNCHANGED <<fn, arg>> /\ UNCHANGED cliVars

CallMetricName ==
    fn = "_generate_metric_name" /\ Return(_generate_metric_name(arg[1], arg[2]))

CallMetricsSection ==
    fn = "_generate_metrics_section" /\ Return(_generate_metrics_section(TableAlias, arg))

CallFactsSection ==
    fn = "_generate_facts_section" /\ Return(_generate_facts_section(TableAlias, arg))

CallTablesSection ==
    fn = "_generate_tables_section" /\ Return(_generate_tables_section(TableAlias, "t", arg))

CallRelationshipsSection ==
    fn = "_generate_relationships_section" /\ Return(_generate_relationships_section(arg))

CallDimensionsSection ==
    fn = "_generate_dimensions_section" /\ Return(_generate_dimensions_section(TableAlias, arg))

CallExtractTableName ==
    fn = "_extract_table_name" /\ Return(_extract_table_name(arg))

\* a raised ValueError returns nothing: ret stays empty
CallConvertSingleModel ==
    /\ fn = "_convert_single_model"
    /\ Return(_convert_single_model(arg).text)

UnitNext ==
    \/ CallMetricName
    \/ CallMetricsSection
    \/ CallFactsSection
    \/ CallTablesSection
    \/ CallRelationshipsSection
    \/ CallDimensionsSection
    \/ CallExtractTableName
    \/ CallConvertSingleModel

UnitSpec == UnitInit /\ [][UnitNext]_vars


(***************************************************************************)
(* The `convert` command: converter.main, which runs convert_file and      *)
(* convert_yaml_content step by step                                       *)
(***************************************************************************)
DocModelPool ==
    {[name |-> "simple_model", description |-> "A simple example semantic model",
      model |-> "ref('my_table')",
      entities |-> <<[name |-> "id", type |-> "primary"],
                     [name |-> "user_id", type |-> "foreign"]>>,
      dimensions |-> <<[name |-> "created_date", type |-> "time",
                        type_params |-> [time_granularity |-> "day"],
                        description |-> "Creation date"],
                       [name |-> "status", type |-> "categorical",
                        description |-> "Record status"]>>,
      measures |-> <<[name |-> "amount", agg |-> "sum", description |-> "Total amount"],
                     [name |-> "record_count", expr |-> PyStr("1"), agg |-> "sum",
                      description |-> "Count of records"]>>],
     [name |-> "orders", model |-> "analytics.orders"],
     [name |-> "users", entities |-> <<[name |-> "user_id", type |-> "primary"]>>,
      measures |-> <<[name |-> "logins", agg |-> "count"]>>],
     [name |-> "", model |-> "ref('anonymous')"],
     [description |-> "a model without a name", model |-> "ref('nameless')"]}

Documents ==
    {Empty, [metrics |-> <<>>], [semantic_models |-> <<>>]}
    \cup {[semantic_models |-> l] : l \in SeqsUpTo(DocModelPool, MaxModels) \ {<<>>}}

NoFile == [exists |-> FALSE, content |-> ""]

Init ==
    /\ pc = "convert_file"
    /\ readable \in BOOLEAN
    /\ data \in Documents
    /\ output_given \in BOOLEAN
    /\ overwrite \in BOOLEAN
    /\ file \in {NoFile, [exists |-> TRUE, content |-> "-- previous content"]}
    /\ file0 = file
    /\ idx = 0 /\ sql_outputs = <<>>
    /\ sql_output = [set |-> FALSE, text |-> ""]
    /\ error = "" /\ exit_status = -1
    /\ fn = "" /\ arg = Empty /\ ret = "" /\ returned = FALSE

\* an exception propagates to the `except Exception` of main
Raise(message) == pc' = "except" /\ error' = message

\* convert_file: open the input and yaml.safe_load it
convert_file ==
    /\ pc = "convert_file"
    /\ IF readable
       THEN pc' = "convert_yaml_content" /\ error' = error
       ELSE Raise("cannot load the input file")
    /\ UNCHANGED <<readable, data, output_given, overwrite, file, file0, idx, sql_outputs,
                   sql_output, exit_status>>
    /\ UNCHANGED fnVars

\* convert_yaml_content, up to the loop
convert_yaml_content ==
    /\ pc = "convert_yaml_content"
    /\ IF "semantic_models" \notin DOMAIN data
       THEN Raise("No semantic_models found in YAML") /\ UNCHANGED <<idx, sql_outputs>>
       ELSE IF data.semantic_models = <<>>
            THEN Raise("semantic_models list is empty") /\ UNCHANGED <<idx, sql_outputs>>
            ELSE pc' = "for_model" /\ idx' = 1 /\ sql_outputs' = <<>> /\ error' = error
    /\ UNCHANGED <<readable, data, output_given, overwrite, file, file0, sql_output,
                   exit_status>>
    /\ UNCHANGED fnVars

\* fault: a model without a name is skipped instead of raising
for_model_SkipNameless ==
    /\ pc = "for_model"
    /\ idx <= Len(data.semantic_models)
    /\ LET converted == _convert_single_model(data.semantic_models[idx])
       IN /\ sql_outputs' = IF converted.ok THEN Append(sql_outputs, converted.text)
                                             ELSE sql_outputs
          /\ idx' = idx + 1
          /\ UNCHANGED <<pc, error>>
    /\ UNCHANGED <<readable, data, output_given, overwrite, file, file0, sql_output,
                   exit_status>>
    /\ UNCHANGED fnVars

\* one iteration of `for model in semantic_models`
for_model ==
    /\ pc = "for_model"
    /\ idx <= Len(data.semantic_models)
    /\ LET converted == _convert_single_model(data.semantic_models[idx])
       IN IF converted.ok
          THEN /\ sql_outputs' = Append(sql_outputs, converted.text)
               /\ idx' = idx + 1
               /\ UNCHANGED <<pc, error>>
          ELSE /\ Raise("Semantic model must have a name")
               /\ UNCHANGED <<idx, sql_outputs>>
    /\ UNCHANGED <<readable, data, output_given, overwrite, file, file0, sql_output,
                   exit_status>>
    /\ UNCHANGED fnVars

\* fault: the statements joined by one line break
return_joined_SingleNewline ==
    /\ pc = "for_model"
    /\ idx > Len(data.semantic_models)
    /\ sql_output' = [set |-> TRUE, text |-> join("\n", sql_outputs)]
    /\ pc' = "output"
    /\ UNCHANGED <<readable, data, output_given, overwrite, file, file0, idx, sql_outputs,
                   error, exit_status>>
    /\ UNCHANGED fnVars

\* the loop is over: return '\n\n'.join(sql_outputs), bound to sql_output in main
return_joined ==
    /\ pc = "for_model"
    /\ idx > Len(data.semantic_models)
    /\ sql_output' = [set |-> TRUE, text |-> join("\n\n", sql_outputs)]
    /\ pc' = "output"
    /\ UNCHANGED <<readable, data, output_given, overwrite, file, file0, idx, sql_outputs,
                   error, exit_status>>
    /\ UNCHANGED fnVars

\* fault: the `output_file.exists() and not overwrite` check dropped
output_handling_NoExistsCheck ==
    /\ pc = "output"
    /\ IF ~output_given
       THEN pc' = "exited" /\ exit_status' = 0
       ELSE pc' = "open" /\ exit_status' = exit_status
    /\ UNCHANGED <<readable, data, output_given, overwrite, file, file0, idx, sql_outputs,
                   sql_output, error>>
    /\ UNCHANGED fnVars

\* `if output_file:` up to the existence check; without OUTPUT_FILE the text
\* is echoed and the command ends
output_handling ==
    /\ pc = "output"
    /\ IF ~output_given
       THEN pc' = "exited" /\ exit_status' = 0
       ELSE IF file.exists /\ ~overwrite
            THEN pc' = "exited" /\ exit_status' = 1
            ELSE pc' = "open" /\ exit_status' = exit_status
    /\ UNCHANGED <<readable, data, output_given, overwrite, file, file0, idx, sql_outputs,
                   sql_output, error>>
    /\ UNCHANGED fnVars

\* mkdir of the parent and open(output_file, 'w'): the path is created or
\* truncated, unless the file system refuses
open_output ==
    /\ pc = "open"
    /\ \E refused \in BOOLEAN :
          IF refused
          THEN Raise("cannot open the output file") /\ file' = file
          ELSE /\ file' = [exists |-> TRUE, content |-> ""]
               /\ pc' = "write" /\ error' = error
    /\ UNCHANGED <<readable, data, output_given, overwrite, file0, idx, sql_outputs,
                   sql_output, exit_status>>
    /\ UNCHANGED fnVars

\* f.write(sql_output) and the closing echo
write_output ==
    /\ pc = "write"
    /\ file' = [exists |-> TRUE, content |-> sql_output.text]
    /\ pc' = "exited" /\ exit_status' = 0
    /\ UNCHANGED <<readable, data, output_given, overwrite, file0, idx, sql_outputs,
                   sql_output, error>>
    /\ UNCHANGED fnVars

\* except Exception: echo the error, sys.exit(1)
except_handler ==
    /\ pc = "except"
    /\ pc' = "exited" /\ exit_status' = 1
    /\ UNCHANGED <<readable, data, output_given, overwrite, file, file0, idx, sql_outputs,
                   sql_output, error>>
    /\ UNCHANGED fnVars

Next ==
    \/ convert_file
    \/ convert_yaml_content
    \/ for_model
    \/ return_joined
    \/ output_handling
    \/ open_output
    \/ write_output
    \/ except_handler

Spec == Init /\ [][Next]_vars


(***************************************************************************)
(* Properties of the metric and fact builders                              *)
(***************************************************************************)
Called(method) == fn = method /\ returned

\* the optional comment line every builder appends to a definition
CommentLine(record) ==
    IF Get(record, "description", "") # ""
    THEN "\n  COMMENT '" \o record.description \o "'" ELSE ""

\* f applied to every element of a list
Map(list, f(_)) == [i \in 1..Len(list) |-> f(list[i])]

EndsWithAny(name, suffixes) == \E x \in suffixes : endswith(name, x)

\* the naming rules, one disjoint case per rule
NamingRule(name, agg) ==
    LET a == lower(agg)
        counting == endswith(name, "_count") \/ name = "count"
        descriptive == EndsWithAny(name, {"_total", "_amount", "_value"})
    IN CASE a = "sum" /\ counting -> "total_count"
         [] a = "sum" /\ ~counting /\ descriptive -> name
         [] a = "sum" /\ ~counting /\ ~descriptive -> "total_" \o name
         [] a \in {"avg", "average"} -> "avg_" \o name
         [] a = "count" /\ endswith(name, "_count") -> name
         [] a = "count" /\ ~endswith(name, "_count") -> name \o "_count"
         [] a = "count_distinct" /\ startswith(name, "unique_") -> name
         [] a = "count_distinct" /\ ~startswith(name, "unique_") -> "unique_" \o name
         [] OTHER -> a \o "_" \o name

\* C4: _generate_metric_name(measure_name, agg) equals the naming rules for
\* every name and every aggregation keyword, the keyword compared
\* case-insensitively.
C4_MetricNameFollowsNamingRules ==
    Called("_generate_metric_name") => ret = NamingRule(arg[1], arg[2])

\* C4 witness: a sum over a name ending in _count, the keyword in upper case
C4_Witness ==
    Called("_generate_metric_name") /\ arg = <<"order_count", "SUM">> /\ ret = "total_count"

\* the expression and the aggregation keyword a measure defaults to
MeasureExpr(measure) == Get(measure, "expr", PyStr(measure.name))

MeasureAgg(measure) == Get(measure, "agg", "sum")

\* the fact inclusion rule
PassesFactRule(measure) ==
    /\ str(MeasureExpr(measure)) # "1"
    /\ lower(MeasureAgg(measure)) # "count"
    /\ lower(MeasureAgg(measure)) # "count_distinct"
    /\ ~(Len(str(MeasureExpr(measure))) >= 5
         /\ lower(SubSeq(str(MeasureExpr(measure)), 1, 5)) = "count")

FactText(measure) ==
    TableAlias \o "." \o measure.name \o " AS " \o str(MeasureExpr(measure))
        \o CommentLine(measure)

\* C5: the FACTS section holds exactly the measures that pass the inclusion
\* rule (expression not '1', aggregation neither count nor count_distinct in
\* any letter case, expression not beginning with COUNT in any letter case),
\* in input order, each as '<alias>.<name> AS <expr>' followed by its optional
\* comment line.
C5_FactsAreTheRowLevelMeasures ==
    Called("_generate_facts_section") =>
        ret = join(",\n", Map(SelectSeq(arg, PassesFactRule), FactText))

\* C5 witness: of two measures the count sentinel is left out, the sum kept
C5_Witness ==
    /\ Called("_generate_facts_section")
    /\ arg = <<[name |-> "record_count", expr |-> PyStr("1"), agg |-> "sum"],
               [name |-> "amount", agg |-> "sum"]>>
    /\ ret = "m.amount AS amount"

\* the metric expression by the priority order of the rewrites; the count
\* sentinel `expr: 1` is the YAML integer or the text '1'
PriorityMetricExpr(measure) ==
    LET a == lower(MeasureAgg(measure))
        e == str(MeasureExpr(measure))
    IN CASE a = "count_distinct" -> "COUNT(DISTINCT " \o e \o ")"
         [] a # "count_distinct" /\ e = "1" /\ a \in {"sum", "count"} -> "COUNT(*)"
         [] OTHER -> (IF a \in DOMAIN aggregation_mapping THEN aggregation_mapping[a]
                      ELSE upper(MeasureAgg(measure))) \o "(" \o e \o ")"

PriorityMetricText(measure) ==
    TableAlias \o "." \o _generate_metric_name(measure.name, MeasureAgg(measure)) \o " AS "
        \o PriorityMetricExpr(measure) \o CommentLine(measure)

\* C3: one metric per measure, in input order, its expression chosen by
\* priority: COUNT(DISTINCT <expr>) for count_distinct; else COUNT(*) when the
\* expression is the literal 1 and the aggregation is sum or count; else
\* <MAPPED_AGG>(<expr>).
C3_MetricExprByPriority ==
    Called("_generate_metrics_section") => ret = join(",\n", Map(arg, PriorityMetricText))

\* C3 as it holds of the code: the same, for measures whose expression is not
\* the YAML integer 1
C3_MetricExprByPriorityForText ==
    (Called("_generate_metrics_section")
        /\ \A i \in 1..Len(arg) : MeasureExpr(arg[i]) # PyInt("1"))
    => ret = join(",\n", Map(arg, PriorityMetricText))

(***************************************************************************)
(* Properties of the table section                                         *)
(***************************************************************************)
EntityKey(entity) == Get(entity, "expr", entity.name)

IsPrimary(entity) == Get(entity, "type", "") = "primary"

\* the key by the selection rule: the first primary entity, else the first
\* entity, else 'id'
SelectedKey(entities) ==
    IF \E i \in 1..Len(entities) : IsPrimary(entities[i])
    THEN EntityKey(entities[CHOOSE i \in 1..Len(entities) :
                                IsPrimary(entities[i])
                                /\ \A j \in 1..(i - 1) : ~IsPrimary(entities[j])])
    ELSE IF entities # <<>> THEN EntityKey(entities[1])
    ELSE "id"

\* C6: the primary key written is the expr (or name) of the first entity of
\* type primary, without one that of the first entity, and 'id' for an empty
\* list.
C6_PrimaryKeyIsFirstPrimaryEntity ==
    Called("_generate_tables_section") =>
        ret = TableAlias \o " AS t\n  PRIMARY KEY (" \o SelectedKey(arg) \o ")"

\* C6 as it holds of the code: the same, when the first primary entity's key
\* is not empty
C6_PrimaryKeyIsFirstNonEmptyPrimary ==
    (Called("_generate_tables_section")
        /\ \A i \in 1..Len(arg) : IsPrimary(arg[i]) => EntityKey(arg[i]) # "")
    => ret = TableAlias \o " AS t\n  PRIMARY KEY (" \o SelectedKey(arg) \o ")"


(***************************************************************************)
(* Properties of the dimension section                                     *)
(***************************************************************************)
\* whether DATE_TRUNC is due by the rule: a time dimension without a custom
\* expression
IsPlainTimeDimension(dimension) ==
    /\ Get(dimension, "type", "categorical") = "time"
    /\ ("expr" \notin DOMAIN dimension \/ dimension.expr = dimension.name)

HasGranularity(dimension) ==
    /\ "type_params" \in DOMAIN dimension
    /\ "time_granularity" \in DOMAIN dimension.type_params

GranularityKeyword(dimension) ==
    IF ~HasGranularity(dimension) THEN "DAY"
    ELSE LET g == dimension.type_params.time_granularity
         IN CASE g = "day" -> "DAY"
              [] g = "week" -> "WEEK"
              [] g = "month" -> "MONTH"
              [] g = "quarter" -> "QUARTER"
              [] g = "year" -> "YEAR"
              [] g = "hour" -> "HOUR"
              [] g = "minute" -> "MINUTE"
              [] OTHER -> upper(g)

Truncated(dimension) ==
    "DATE_TRUNC('" \o GranularityKeyword(dimension) \o "', " \o dimension.name \o ")"

\* the expression by the rule as stated: every plain time dimension is
\* truncated
StatedDimensionExpr(dimension) ==
    IF IsPlainTimeDimension(dimension) THEN Truncated(dimension)
    ELSE Get(dimension, "expr", dimension.name)

HasEmptyGranularity(dimension) ==
    HasGranularity(dimension) /\ dimension.type_params.time_granularity = ""

\* the expression by the rule as the code applies it: an empty granularity
\* turns the truncation off
GuardedDimensionExpr(dimension) ==
    IF IsPlainTimeDimension(dimension) /\ ~HasEmptyGranularity(dimension)
    THEN Truncated(dimension)
    ELSE Get(dimension, "expr", dimension.name)

InlineText(dimension, expr) ==
    TableAlias \o "." \o dimension.name \o " AS " \o expr \o CommentLine(dimension)

\* C7 as stated: every time dimension whose expr is absent or equal to its
\* name renders as DATE_TRUNC('<GRANULARITY>', <name>), an unknown granularity
\* upper-cased verbatim and DAY when none is given; every other dimension
\* keeps its expr (or name).  Stated of the dimensions short enough to render
\* inline.
C7_EveryPlainTimeDimensionIsTruncated ==
    (Called("_generate_dimensions_section")
        /\ \A i \in 1..Len(arg) : Len(StatedDimensionExpr(arg[i])) <= WrapLimit)
    => ret = join(",\n", Map(arg, LAMBDA d : InlineText(d, StatedDimensionExpr(d))))

\* C7 amended: the same for a granularity that is not the empty string; a
\* time dimension whose time_granularity is present and empty keeps its expr
\* (or name) like a dimension with a custom expr.
C7_PlainTimeDimensionIsTruncatedUnlessGranularityEmpty ==
    (Called("_generate_dimensions_section")
        /\ \A i \in 1..Len(arg) : Len(GuardedDimensionExpr(arg[i])) <= WrapLimit)
    => ret = join(",\n", Map(arg, LAMBDA d : InlineText(d, GuardedDimensionExpr(d))))

\* C7 witness: a granularity outside the table, truncated and upper-cased
C7_Witness ==
    /\ Called("_generate_dimensions_section")
    /\ arg = <<[name |-> "created_date", type |-> "time",
                type_params |-> [time_granularity |-> "fortnight"]]>>
    /\ ret = "m.created_date AS DATE_TRUNC('FORTNIGHT', created_date)"

\* the text cut into maximal runs of whitespace and of non-whitespace
RunLength(s) ==
    CHOOSE n \in 1..Len(s) :
        /\ \A j \in 1..n : IsSpace(Chr(s, j)) = IsSpace(Chr(s, 1))
        /\ (n < Len(s) => IsSpace(Chr(s, n + 1)) # IsSpace(Chr(s, 1)))

RECURSIVE Tokens(_)
Tokens(s) ==
    IF s = "" THEN <<>>
    ELSE <<SubSeq(s, 1, RunLength(s))>> \o Tokens(SubSeq(s, RunLength(s) + 1, Len(s)))

IsBlank(token) == IsSpace(Chr(token, 1))

\* left to right, every keyword standing between two whitespace runs is
\* replaced together with both runs
RECURSIVE ReplaceDelimited(_, _, _)
ReplaceDelimited(tokens, keyword, replacement) ==
    IF tokens = <<>> THEN ""
    ELSE IF Len(tokens) >= 3 /\ IsBlank(tokens[1]) /\ lower(tokens[2]) = keyword
            /\ IsBlank(tokens[3])
         THEN replacement \o ReplaceDelimited(SubSeq(tokens, 4, Len(tokens)), keyword,
                                              replacement)
         ELSE tokens[1] \o ReplaceDelimited(Tail(tokens), keyword, replacement)

\* left to right, every whitespace run before a word beginning with `end` is
\* replaced with those three letters; after the whole word `end` the
\* whitespace is dropped
RECURSIVE ReplaceEnd(_)
ReplaceEnd(tokens) ==
    IF tokens = <<>> THEN ""
    ELSE IF Len(tokens) >= 2 /\ IsBlank(tokens[1]) /\ Len(tokens[2]) >= 3
            /\ lower(SubSeq(tokens[2], 1, 3)) = "end"
         THEN "\n      END"
                  \o (IF Len(tokens[2]) = 3
                      THEN ReplaceEnd(SubSeq(tokens, 4, Len(tokens)))
                      ELSE SubSeq(tokens[2], 4, Len(tokens[2]))
                               \o ReplaceEnd(SubSeq(tokens, 3, Len(tokens))))
         ELSE tokens[1] \o ReplaceEnd(Tail(tokens))

\* the multi-line form, THEN replaced by thenText
Reformatted(expr, thenText) ==
    IF \E i \in 1..Len(expr) : i + 4 <= Len(expr) /\ lower(SubSeq(expr, i, i + 4)) = "case "
    THEN LET whens == ReplaceDelimited(Tokens(expr), "when", "\n      WHEN ")
             thens == ReplaceDelimited(Tokens(whens), "then", thenText)
             elses == ReplaceDelimited(Tokens(thens), "else", "\n      ELSE ")
         IN "    " \o ReplaceEnd(Tokens(elses))
    ELSE "    " \o expr

DimensionText(dimension, thenText) ==
    LET expr == DimensionExpr(dimension)
    IN IF Len(expr) <= WrapLimit THEN InlineText(dimension, expr)
       ELSE TableAlias \o "." \o dimension.name \o " AS (\n" \o Reformatted(expr, thenText)
                \o "\n)" \o CommentLine(dimension)

\* C10 as stated: an expression of at most 60 characters renders inline, a
\* longer one in the parenthesised multi-line form, where a CASE expression
\* has the whitespace before every WHEN, THEN, ELSE and END replaced by a
\* newline plus the indentation, the keyword upper-cased.
C10_EveryKeywordStartsALine ==
    Called("_generate_dimensions_section") =>
        ret = join(",\n", Map(arg, LAMBDA d : DimensionText(d, "\n      THEN ")))

\* C10 amended: as stated for WHEN, ELSE and END; a THEN between whitespace
\* becomes ' THEN ' and stays on the line of its WHEN.
C10_KeywordsStartALineButThen ==
    Called("_generate_dimensions_section") =>
        ret = join(",\n", Map(arg, LAMBDA d : DimensionText(d, " THEN ")))

\* C10 witness: a CASE expression of more than 60 characters, wrapped
C10_Witness ==
    /\ Called("_generate_dimensions_section")
    /\ arg = <<[name |-> "status",
                expr |-> "case when amount > 100 then 'large' when amount > 10 then 'mid' else 'small' end"]>>
    /\ ret = "m.status AS (\n    case\n      WHEN amount > 100 THEN 'large'\n      WHEN amount > 10 THEN 'mid'\n      ELSE 'small'\n      END\n)"

\* C10 witness at the threshold: 60 characters inline
C10_WitnessThreshold ==
    /\ Called("_generate_dimensions_section")
    /\ Len(arg) = 1 /\ Get(arg[1], "expr", "") = Rep("x", WrapLimit)
    /\ ret = "m.status AS " \o Rep("x", WrapLimit)

(***************************************************************************)
(* Properties of the assembled statement                                   *)
(***************************************************************************)
\* a clause header: a line indented by two spaces, but not a closing `  )`
IsHeaderLine(line) ==
    /\ Len(line) >= 3 /\ SubSeq(line, 1, 2) = "  " /\ Chr(line, 3) # " "
    /\ line \notin {"  )", "  );"}

\* the first word of a header line
HeaderKeyword(line) ==
    SubSeq(line, 3, CHOOSE n \in 3..Len(line) :
                        /\ \A j \in 3..n : Chr(line, j) # " "
                        /\ (n < Len(line) => Chr(line, n + 1) = " "))

ClauseKeywords(text) == Map(SelectSeq(SplitLines(text), IsHeaderLine), HeaderKeyword)

If(condition, keyword) == IF condition THEN <<keyword>> ELSE <<>>

ExpectedClauses(model) ==
    LET entities == Get(model, "entities", <<>>)
        measures == Get(model, "measures", <<>>)
        dimensions == Get(model, "dimensions", <<>>)
    IN If(Get(model, "description", "") # "", "COMMENT")
       \o <<"TABLES">>
       \o If(\E i \in 1..Len(entities) : Get(entities[i], "type", "") = "foreign",
             "RELATIONSHIPS")
       \o If(\E i \in 1..Len(measures) : PassesFactRule(measures[i]), "FACTS")
       \o If(dimensions # <<>>, "DIMENSIONS")
       \o If(measures # <<>>, "METRICS")

\* C8: the statement of one model opens with CREATE SEMANTIC VIEW <name>,
\* holds its clauses in the order COMMENT, TABLES, RELATIONSHIPS, FACTS,
\* DIMENSIONS, METRICS and ends with ';'; TABLES is always there, COMMENT
\* exactly for a non-empty description, RELATIONSHIPS exactly for a foreign
\* entity, FACTS exactly for a measure passing the fact rule, DIMENSIONS
\* exactly for a dimension, METRICS exactly for a measure.
C8_ClausesInFixedOrderWhenPresent ==
    (Called("_convert_single_model") /\ Get(arg, "name", "") # "") =>
        /\ SplitLines(ret)[1] = "CREATE SEMANTIC VIEW " \o arg.name
        /\ ClauseKeywords(ret) = ExpectedClauses(arg)
        /\ endswith(ret, "\n  );")
        /\ Len(SelectSeq(SplitLines(ret), LAMBDA l : endswith(l, ";"))) = 1

\* C8 witness: a statement with every clause
C8_Witness ==
    /\ Called("_convert_single_model")
    /\ ClauseKeywords(ret)
           = <<"COMMENT", "TABLES", "RELATIONSHIPS", "FACTS", "DIMENSIONS", "METRICS">>

\* C8 witness: a statement with the TABLES clause alone
C8_WitnessBare ==
    /\ Called("_convert_single_model")
    /\ ret = "CREATE SEMANTIC VIEW simple_model\n  TABLES (\n    simple_model AS unknown_table\n      PRIMARY KEY (id)\n  );"


(***************************************************************************)
(* Properties of the document-level conversion and of the command          *)
(***************************************************************************)
HasName(model) == "name" \in DOMAIN model /\ model.name # ""

HasModels(document) ==
    "semantic_models" \in DOMAIN document /\ document.semantic_models # <<>>

AllNamed(document) ==
    HasModels(document)
    /\ \A i \in 1..Len(document.semantic_models) : HasName(document.semantic_models[i])

Statement(model) == _convert_single_model(model).text

\* the statements of the first n models, a blank line between two of them
RECURSIVE BlocksUpTo(_, _)
BlocksUpTo(models, n) ==
    IF n = 1 THEN Statement(models[1])
    ELSE BlocksUpTo(models, n - 1) \o "\n" \o "\n" \o Statement(models[n])

\* the lines at which a statement starts
StatementStarts(text) ==
    SelectSeq(SplitLines(text), LAMBDA l : startswith(l, "CREATE SEMANTIC VIEW "))

\* main is past the conversion
Converted == pc \in {"output", "open", "write"} \/ (pc = "exited" /\ error = "")

ConversionErrors ==
    {"No semantic_models found in YAML", "semantic_models list is empty",
     "Semantic model must have a name"}

\* C1: a document of N >= 1 models that all have a name converts without an
\* error into the N statements of its models, each the conversion of that
\* model alone, in input order with one blank line between two of them.
C1_OneBlockPerModelInOrder ==
    /\ (readable /\ AllNamed(data)) => error \notin ConversionErrors
    /\ sql_output.set =>
          /\ AllNamed(data)
          /\ Len(sql_outputs) = Len(data.semantic_models)
          /\ \A i \in 1..Len(sql_outputs) :
                sql_outputs[i] = Statement(data.semantic_models[i])
          /\ sql_output.text = BlocksUpTo(data.semantic_models, Len(data.semantic_models))
          /\ Len(StatementStarts(sql_output.text)) = Len(data.semantic_models)

\* C1 witness: two different models converted, the statements in input order
C1_Witness ==
    /\ sql_output.set
    /\ Len(data.semantic_models) = 2
    /\ data.semantic_models[1].name = "simple_model"
    /\ data.semantic_models[2].name = "orders"
    /\ StatementStarts(sql_output.text)
           = <<"CREATE SEMANTIC VIEW simple_model", "CREATE SEMANTIC VIEW orders">>

\* C2: without the semantic_models key, with an empty list, or with a model
\* lacking a non-empty name at any position, the conversion raises its error
\* and no text is returned: main never holds a text, writes nothing and exits
\* with the error.
C2_InvalidDocumentYieldsNoText ==
    ~AllNamed(data) =>
        /\ ~sql_output.set /\ sql_output.text = ""
        /\ ~Converted
        /\ file = file0
        /\ (pc \in {"except", "exited"} /\ readable) =>
              error = (IF "semantic_models" \notin DOMAIN data
                       THEN "No semantic_models found in YAML"
                       ELSE IF data.semantic_models = <<>>
                            THEN "semantic_models list is empty"
                            ELSE "Semantic model must have a name")
        /\ pc = "exited" => exit_status = 1

\* C2 witness: the error is raised at the second model, after the first was
\* converted
C2_Witness ==
    /\ pc = "exited" /\ error = "Semantic model must have a name"
    /\ Len(data.semantic_models) = 2 /\ Len(sql_outputs) = 1
    /\ ~sql_output.set /\ exit_status = 1

\* C9: the command changes the output path only after a successful
\* conversion and only if the path did not exist or --overwrite was given;
\* an existing path without --overwrite is left as it was with a non-zero
\* exit status; a failed conversion leaves the path as it was with a non-zero
\* exit status; a completed write leaves exactly the converted text.
C9_OutputPathWrittenOnlyWhenAllowed ==
    /\ file # file0 => (sql_output.set /\ output_given /\ (~file0.exists \/ overwrite))
    /\ (pc = "exited" /\ output_given /\ file0.exists /\ ~overwrite) =>
          (file = file0 /\ exit_status # 0)
    /\ (pc = "exited" /\ ~sql_output.set) => (file = file0 /\ exit_status # 0)
    /\ (pc = "exited" /\ output_given /\ exit_status = 0) =>
          (sql_output.set /\ file = [exists |-> TRUE, content |-> sql_output.text])

\* C9 witness: the conversion succeeded, the path exists, --overwrite is not
\* set: the command exits with 1 and the file is as before
C9_Witness ==
    /\ pc = "exited" /\ sql_output.set /\ output_given /\ file0.exists /\ ~overwrite
    /\ file = file0 /\ exit_status = 1

\* C9 witness: an existing file replaced under --overwrite
C9_WitnessOverwritten ==
    /\ pc = "exited" /\ output_given /\ file0.exists /\ overwrite /\ exit_status = 0
    /\ file.content = sql_output.text /\ file # file0


============================================================================
